---- MODULE Spec2Model ----
(***************************************************************************)
(* A model of the soccer-odds Cloudflare Worker: the HTTP entry point      *)
(* (src/index.js), the odds service pipeline (src/lib/oddsService.js:      *)
(* fetchAndProcessData, fetchOddsData, getFormattedMatchesAsJson) and the  *)
(* pure helpers (src/lib/timeHelpers.js, src/lib/formatHelpers.js).        *)
(*                                                                         *)
(* JavaScript strings that the code takes apart are sequences of           *)
(* one-character strings; Str turns such a sequence into a TLA+ string so  *)
(* that properties can be written against string literals.                 *)
(***************************************************************************)
EXTENDS Integers, Sequences, FiniteSets, TLC

VARIABLES
    pc,                \* position of the running invocation / call
    method,            \* request.method of the invocation being served
    env,               \* env.ODDS_PARENT_URL and env.PROXY_URL of the invocation
    leagueCollection,  \* the module-level Set of oddsService.js
    fullUrl,           \* the URL handed to fetch() by fetchAndProcessData
    fetched,           \* whether this invocation issued the outbound fetch
    status,            \* response.status of the relay's answer
    rawText,           \* const rawText of fetchAndProcessData
    result,            \* the value fetchAndProcessData returned
    response,          \* the Response the fetch handler returned
    net,               \* "error" when fetch() or response.text() rejected
    data,              \* const data of getFormattedMatchesAsJson
    runLeagues,        \* league names the normalizer met in this invocation
    idem,              \* the first pipeline run and the latest one (SpecIdem only)
    timeIn,            \* the time of day the argument is written from (SpecTime only)
    timeStr,           \* argument of subtract90Minutes (SpecTime only)
    timeRet,           \* value subtract90Minutes returned (SpecTime only)
    oddsArgs,          \* arguments of formatOdds (SpecOdds only)
    oddsRet            \* value formatOdds returned (SpecOdds only)

vars == <<pc, method, env, leagueCollection, fullUrl, fetched, status, rawText,
          result, response, net, data, runLeagues, idem, timeIn, timeStr,
          timeRet, oddsArgs, oddsRet>>

---------------------------------------------------------------------------
(* Bounds of the model.                                                    *)

MaxLeagues == 2     \* [leagueMeta, matches] entries in a payload
MaxMatches == 1     \* matches in one league of a generic entry
MaxLen == 5         \* length of the relay's top-level array
MaxTimestamp == 2   \* distinct values of new Date().getTime()
MaxWhole == 2       \* formatOdds: num1 ranges over 0..MaxWhole
MaxCents == 100     \* formatOdds: num2 ranges over -MaxCents..MaxCents

---------------------------------------------------------------------------
(* Strings.                                                                *)

DigitChars == <<"0", "1", "2", "3", "4", "5", "6", "7", "8", "9">>

RECURSIVE Str(_)
Str(cs) == IF cs = <<>> THEN "" ELSE Head(cs) \o Str(Tail(cs))

\* String(n) for a natural number n.
RECURSIVE NatChars(_)
NatChars(n) ==
    IF n < 10 THEN <<DigitChars[n + 1]>>
    ELSE NatChars(n \div 10) \o <<DigitChars[(n % 10) + 1]>>

\* String(n) for an integer n.
IntChars(n) == IF n < 0 THEN <<"-">> \o NatChars(-n) ELSE NatChars(n)

\* s.padStart(2, '0')
PadStart2(cs) == IF Len(cs) < 2 THEN <<"0">> \o cs ELSE cs

DigitVal(c) == (CHOOSE i \in 1..10 : DigitChars[i] = c) - 1

\* Number(s) for s a (possibly empty) run of decimal digits: "" is 0, "02" is 2.
RECURSIVE ToNumber(_)
ToNumber(cs) ==
    IF cs = <<>> THEN 0
    ELSE ToNumber(SubSeq(cs, 1, Len(cs) - 1)) * 10 + DigitVal(cs[Len(cs)])

\* s.trim()
RECURSIVE Trim(_)
Trim(cs) ==
    IF cs = <<>> THEN cs
    ELSE IF Head(cs) = " " THEN Trim(Tail(cs))
    ELSE IF cs[Len(cs)] = " " THEN Trim(SubSeq(cs, 1, Len(cs) - 1))
    ELSE cs

\* s.split(sep) for a one-character separator: the pieces, empty ones included.
RECURSIVE Split(_, _)
Split(cs, sep) ==
    IF \A i \in 1..Len(cs) : cs[i] # sep THEN <<cs>>
    ELSE LET i == CHOOSE k \in 1..Len(cs) :
                     cs[k] = sep /\ \A j \in 1..(k - 1) : cs[j] # sep
         IN <<SubSeq(cs, 1, i - 1)>> \o Split(SubSeq(cs, i + 1, Len(cs)), sep)

\* Positions where the regular expression /(AM|PM)/ matches.
PeriodAt(cs, i) ==
    /\ i + 1 <= Len(cs)
    /\ cs[i] \in {"A", "P"}
    /\ cs[i + 1] = "M"

\* timeStr.replace(/(AM|PM)/, ' $1'): a space before the first match only.
ReplacePeriod(cs) ==
    IF \A i \in 1..Len(cs) : ~PeriodAt(cs, i) THEN cs
    ELSE LET i == CHOOSE k \in 1..Len(cs) :
                     PeriodAt(cs, k) /\ \A j \in 1..(k - 1) : ~PeriodAt(cs, j)
         IN SubSeq(cs, 1, i - 1) \o <<" ">> \o SubSeq(cs, i, Len(cs))

\* a[i] of a JavaScript array: undefined (here the empty string) past the end.
PieceAt(pieces, i) == IF i <= Len(pieces) THEN pieces[i] ELSE <<>>

---------------------------------------------------------------------------
(* src/lib/timeHelpers.js                                                  *)

MinutesPerDay == 1440
Offset == 90

NormalizeTime(cs) == Trim(ReplacePeriod(cs))

\* The 24-hour conversion of the parsed hour.
To24Hour(hour, period) ==
    IF period = <<"P", "M">> /\ hour # 12 THEN hour + 12
    ELSE IF period = <<"A", "M">> /\ hour = 12 THEN 0
    ELSE hour

subtract90Minutes(ts) ==
    LET normalized == NormalizeTime(ts)
        parts == Split(normalized, " ")
        time == PieceAt(parts, 1)
        period == PieceAt(parts, 2)
        hm == Split(time, ":")
        hour == To24Hour(ToNumber(PieceAt(hm, 1)), period)
        minute == ToNumber(PieceAt(hm, 2))
        shifted == hour * 60 + minute - Offset
        totalMinutes == IF shifted < 0 THEN shifted + MinutesPerDay ELSE shifted
        hour24 == totalMinutes \div 60
        newMinute == totalMinutes % 60
        newPeriod == IF hour24 >= 12 THEN <<"P", "M">> ELSE <<"A", "M">>
        newHour == IF hour24 % 12 = 0 THEN 12 ELSE hour24 % 12
    IN NatChars(newHour) \o <<":">> \o PadStart2(NatChars(newMinute)) \o newPeriod

---------------------------------------------------------------------------
(* src/lib/formatHelpers.js                                                *)

\* String(n / 100) for an integer n: the shortest decimal, e.g. 50 -> "0.5",
\* -1 -> "-0.01", 0 -> "0", 1400 -> "14".
HundredthsChars(n) ==
    LET a == IF n < 0 THEN -n ELSE n
        whole == NatChars(a \div 100)
        frac == a % 100
        fracChars == IF frac = 0 THEN <<>>
                     ELSE IF frac % 10 = 0 THEN <<".", DigitChars[(frac \div 10) + 1]>>
                     ELSE <<".", DigitChars[(frac \div 10) + 1], DigitChars[(frac % 10) + 1]>>
    IN (IF n < 0 THEN <<"-">> ELSE <<>>) \o whole \o fracChars

\* The suffix as a variant that treats zero like a positive value.
MutOddsSuffix(num2) ==
    IF num2 >= 0 THEN <<"+">> \o HundredthsChars(num2)
    ELSE IF num2 = -1 THEN <<>>
    ELSE HundredthsChars(num2)

\* `${val > 0 ? `+${val}` : val === -0.01 ? '' : val}` with val = num2 / 100.
OddsSuffix(num2) ==
    IF num2 > 0 THEN <<"+">> \o HundredthsChars(num2)
    ELSE IF num2 = -1 THEN <<>>
    ELSE HundredthsChars(num2)

formatOdds(num1, num2) ==
    LET formatted == IntChars(num1) \o OddsSuffix(num2)
    IN IF formatted = <<"0", "-", "0", ".", "0", "1">> THEN <<>> ELSE formatted

\* addCacheBusting(url): the url with `&_=<timestamp>` appended.
addCacheBusting(url, timestamp) == [url |-> url, bust |-> timestamp]

---------------------------------------------------------------------------
(* The data of src/lib/oddsService.js.  A JSON value is a record with a    *)
(* type tag, so that values of different JavaScript types stay comparable. *)

Chars2PM == <<"2", ":", "0", "0", "P", "M">>
Chars1215AM == <<"1", "2", ":", "1", "5", "A", "M">>

\* A RawMatch: the positional fields the code reads (index 3, 8, 16, 20, 34,
\* 50, 51, 52, 55), named f<index>; timeIsString tells whether match[8] is a
\* string.
Match1 == [f3 |-> 1, timeIsString |-> TRUE, f8 |-> Chars2PM, f16 |-> "Home1",
           f20 |-> "Away1", f34 |-> 1, f50 |-> 50, f51 |-> 1400, f52 |-> 1,
           f55 |-> 3]
Match2 == [f3 |-> 2, timeIsString |-> TRUE, f8 |-> Chars1215AM, f16 |-> "Home2",
           f20 |-> "Away2", f34 |-> 0, f50 |-> -1, f51 |-> -1, f52 |-> 0,
           f55 |-> 0]
\* Same identifier as Match1, other content, and a number where the time is.
Match3 == [f3 |-> 1, timeIsString |-> FALSE, f8 |-> <<>>, f16 |-> "Home3",
           f20 |-> "Home3", f34 |-> 0, f50 |-> 0, f51 |-> 0, f52 |-> 2,
           f55 |-> 1]

RawMatches == {Match1, Match2}

\* League names (leagueMeta[1]); the empty string is a falsy name.
LeagueNames == {"Premier", ""}

SeqsUpTo(S, n) == UNION {[1..k -> S] : k \in 0..n}

MatchLists == SeqsUpTo(RawMatches, MaxMatches)

\* One element of the payload: kind "pair" is an array [leagueMeta, matches],
\* kind "number" a value that cannot be destructured.  metaIsNull: leagueMeta
\* is null; matchesIsArray: Array.isArray(matches).
PairEntry(name, ms) ==
    [kind |-> "pair", metaIsNull |-> FALSE, name |-> name,
     matchesIsArray |-> TRUE, matches |-> ms]
NumberEntry ==
    [kind |-> "number", metaIsNull |-> FALSE, name |-> "",
     matchesIsArray |-> FALSE, matches |-> <<>>]
NullMetaEntry(ms) ==
    [kind |-> "pair", metaIsNull |-> TRUE, name |-> "",
     matchesIsArray |-> TRUE, matches |-> ms]
NoMatchesEntry(name) ==
    [kind |-> "pair", metaIsNull |-> FALSE, name |-> name,
     matchesIsArray |-> FALSE, matches |-> <<>>]

Entries ==
    {PairEntry(n, ms) : n \in LeagueNames, ms \in MatchLists}
        \cup {NumberEntry, NullMetaEntry(<<Match2>>), NoMatchesEntry("Premier"),
              PairEntry("", <<Match3>>), PairEntry("Premier", <<Match1, Match3>>),
              PairEntry("Premier", <<Match2, Match1, Match2>>)}

\* A JSON value as the code sees it at parsed[3] and as the return value of
\* fetchAndProcessData: t is its JavaScript type, entries its elements when
\* it is an array.
ArrayValue(es) == [t |-> "array", entries |-> es]
ScalarValue(t) == [t |-> t, entries |-> <<>>]
EmptyArray == ArrayValue(<<>>)
Undefined == ScalarValue("undefined")

Payloads == {ArrayValue(es) : es \in SeqsUpTo(Entries, MaxLeagues)}
NonArrays == {ScalarValue(t) : t \in {"number", "null", "string", "object"}}

\* The parsed top-level value: its type, its length when it is an array, and
\* its element at index 3 (undefined when the array is shorter).
TopArray(len, third) == [t |-> "array", len |-> len, third |-> third]
TopScalar(t) == [t |-> t, len |-> 0, third |-> Undefined]

TopValues ==
    {TopScalar(t) : t \in {"number", "null", "string", "object"}}
        \cup {TopArray(n, Undefined) : n \in 0..3}
        \cup {TopArray(n, v) : n \in 4..MaxLen, v \in Payloads \cup NonArrays}

\* A response body.  syntax "json": the text is JSON up to its quote
\* characters; delim is the quote character that delimits its strings and
\* inner a quote character that occurs inside a string value ("" for none).
Text(syntax, delim, inner, value) ==
    [syntax |-> syntax, delim |-> delim, inner |-> inner, value |-> value]

NoText == Text("none", "", "", TopScalar("undefined"))

SmallTopValues ==
    {TopScalar("object"), TopArray(3, Undefined),
     TopArray(4, ArrayValue(<<PairEntry("Premier", <<Match1>>)>>))}

Bodies ==
    {Text("json", "'", "", v) : v \in TopValues}
        \cup {Text("json", d, i, v) :
                d \in {"'", "\""}, i \in {"", "'"}, v \in SmallTopValues}
        \cup {Text("garbage", "", "", TopScalar("undefined"))}

\* rawText.replace(/'/g, '"')
ReplaceQuotes(text) ==
    [text EXCEPT !.delim = IF @ = "'" THEN "\"" ELSE @,
                 !.inner = IF @ = "'" THEN "\"" ELSE @]

\* Whether JSON.parse(text) returns (TRUE) or throws a SyntaxError (FALSE).
JsonParses(text) ==
    /\ text.syntax = "json"
    /\ text.delim = "\""
    /\ text.inner # "\""

\* The status test as a variant without the upper end of the success range.
MutResponseOk(st) == st >= 200

\* response.ok
ResponseOk(st) == st >= 200 /\ st <= 299

\* The validation as a variant that asks for one element more.
MutHasIndex3(parsed) == parsed.t = "array" /\ parsed.len > 4

\* The validation of the parsed value.
HasIndex3(parsed) == parsed.t = "array" /\ parsed.len > 3

\* What fetchAndProcessData makes of the relay's answer.  n is "error" when
\* fetch() or response.text() rejects.  The outer catch returns [].
fetchAndProcessData(n, st, text) ==
    IF n = "error" THEN EmptyArray
    ELSE IF ~ResponseOk(st) THEN EmptyArray
    ELSE IF ~JsonParses(ReplaceQuotes(text)) THEN EmptyArray
    ELSE IF HasIndex3(text.value) THEN text.value.third
    ELSE EmptyArray

\* A NormalizedMatch: the match with its league property set.
WithLeague(m, name) ==
    [f3 |-> m.f3, timeIsString |-> m.timeIsString, f8 |-> m.f8, f16 |-> m.f16,
     f20 |-> m.f20, f34 |-> m.f34, f50 |-> m.f50, f51 |-> m.f51, f52 |-> m.f52,
     f55 |-> m.f55, league |-> name]

\* The state of one fetchOddsData call: finalArr, uniqueMatchIds, the names
\* handed to leagueCollection, and whether a TypeError was thrown.
NormStart == [finalArr |-> <<>>, ids |-> {}, leagues |-> {}, thrown |-> FALSE]

\* The test as a variant that keeps every match.
MutIsNewMatchAlways(matchId, ids, league, collection) == TRUE

\* The test as a variant that also consults the module's leagueCollection.
MutIsNewMatchLeague(matchId, ids, league, collection) ==
    matchId \notin ids /\ league \notin collection

\* !uniqueMatchIds.has(matchId)
IsNewMatch(matchId, ids, league, collection) == matchId \notin ids

\* The body of matches.forEach for one match.
NormalizeMatch(acc, entry, m, collection) ==
    IF entry.metaIsNull THEN [acc EXCEPT !.thrown = TRUE]
    ELSE LET nm == WithLeague(m, entry.name)
             fresh == IsNewMatch(nm.f3, acc.ids, nm.league, collection)
         IN [acc EXCEPT !.ids = IF fresh THEN @ \cup {nm.f3} ELSE @,
                        !.finalArr = IF fresh THEN Append(@, nm) ELSE @,
                        !.leagues = @ \cup {nm.league}]

RECURSIVE NormalizeMatches(_, _, _, _)
NormalizeMatches(acc, entry, ms, collection) ==
    IF acc.thrown \/ ms = <<>> THEN acc
    ELSE NormalizeMatches(
             NormalizeMatch(acc, entry, Head(ms), collection \cup acc.leagues),
             entry, Tail(ms), collection)

\* The body of result.forEach for one entry.
NormalizeEntry(acc, entry, collection) ==
    IF entry.kind # "pair" THEN [acc EXCEPT !.thrown = TRUE]
    ELSE IF ~entry.matchesIsArray THEN acc
    ELSE NormalizeMatches(acc, entry, entry.matches, collection)

RECURSIVE NormalizeEntries(_, _, _)
NormalizeEntries(acc, es, collection) ==
    IF acc.thrown \/ es = <<>> THEN acc
    ELSE NormalizeEntries(NormalizeEntry(acc, Head(es), collection), Tail(es),
                          collection)

\* fetchOddsData on the value fetchAndProcessData returned; a value without
\* forEach throws.
fetchOddsData(res, collection) ==
    IF res.t # "array" THEN [NormStart EXCEPT !.thrown = TRUE]
    ELSE NormalizeEntries(NormStart, res.entries, collection)

\* finalGP of the projector.
FinalGoalPoints(f55, f51) ==
    LET formatVal == IF f51 >= 0 THEN <<"+">> \o HundredthsChars(f51)
                     ELSE HundredthsChars(f51)
        joined == IntChars(f55) \o formatVal
    IN IF joined = <<"0", "-", "0", ".", "0", "1">> THEN <<>> ELSE joined

\* The FormattedMatch of one normalized match whose time is a string.
FormatMatch(m) ==
    LET highlightedTeamName == IF m.f34 = 1 THEN m.f16 ELSE m.f20
    IN [league |-> IF m.league = "" THEN "Unknown League" ELSE m.league,
        time |-> subtract90Minutes(m.f8),
        homeTeam |-> m.f16,
        awayTeam |-> m.f20,
        isHomeTeamHighlighted |-> highlightedTeamName = m.f16,
        isAwayTeamHighlighted |-> highlightedTeamName = m.f20,
        odds |-> formatOdds(m.f52, m.f50),
        finalGoalPoints |-> FinalGoalPoints(m.f55, m.f51)]

\* data.forEach of getFormattedMatchesAsJson: formattedJson so far, and
\* whether subtract90Minutes threw on a time that is not a string.
RECURSIVE Project(_, _)
Project(acc, ms) ==
    IF acc.thrown \/ ms = <<>> THEN acc
    ELSE IF ~Head(ms).timeIsString THEN [acc EXCEPT !.thrown = TRUE]
    ELSE Project([acc EXCEPT !.out = Append(@, FormatMatch(Head(ms)))],
                 Tail(ms))

\* The catch block as a variant that returns what was built so far.
MutCatchResult(partial) == partial

\* What the catch block of getFormattedMatchesAsJson returns, given the
\* formattedJson built before the error.
CatchResult(partial) == <<>>

getFormattedMatchesAsJson(res, collection) ==
    LET norm == fetchOddsData(res, collection)
        proj == Project([out |-> <<>>, thrown |-> FALSE], norm.finalArr)
    IN IF norm.thrown THEN CatchResult(<<>>)
       ELSE IF Len(norm.finalArr) = 0 THEN <<>>
       ELSE IF proj.thrown THEN CatchResult(proj.out)
       ELSE proj.out


---------------------------------------------------------------------------
(* src/index.js: the fetch handler, one invocation at a time.  The only    *)
(* state invocations share is leagueCollection, which no output reads.     *)
(* The handler's own catch (500 "Internal Server Error") has no action:    *)
(* getFormattedMatchesAsJson catches every error of the pipeline and       *)
(* JSON.stringify of its result cannot throw.                              *)

Methods == {"GET", "OPTIONS"}

\* A setting of the Worker's environment: absent, the empty string, or a URL.
Setting(defined, v) == [defined |-> defined, v |-> v]
ApiUrls == {Setting(FALSE, ""), Setting(TRUE, ""), Setting(TRUE, "https://odds.example/?lid=")}
ProxyUrls == {Setting(FALSE, ""), Setting(TRUE, ""), Setting(TRUE, "https://relay.example/exec?url=")}
Envs == [ODDS_PARENT_URL : ApiUrls, PROXY_URL : ProxyUrls]
NoEnv == [ODDS_PARENT_URL |-> Setting(FALSE, ""), PROXY_URL |-> Setting(FALSE, "")]

\* !x for a setting x
Falsy(x) == ~x.defined \/ x.v = ""

\* The check as a variant that fails only when both settings are missing.
MutConfigMissing(e) == Falsy(e.ODDS_PARENT_URL) /\ Falsy(e.PROXY_URL)

\* !apiUrlBase || !proxyUrl
ConfigMissing(e) == Falsy(e.ODDS_PARENT_URL) \/ Falsy(e.PROXY_URL)

Statuses == {200, 300, 404, 500}
Timestamps == 1..MaxTimestamp

\* proxyUrl + encodeURIComponent(addCacheBusting(apiUrlBase + lid))
FullUrl(e, lid, timestamp) ==
    [proxy |-> e.PROXY_URL.v,
     encoded |-> addCacheBusting([base |-> e.ODDS_PARENT_URL.v, lid |-> lid], timestamp)]
NoUrl == [proxy |-> "", encoded |-> addCacheBusting([base |-> "", lid |-> 0], 0)]

Response(st, kind, body) == [status |-> st, kind |-> kind, body |-> body]
NoResponse == Response(0, "none", <<>>)

NoIdem == [runs |-> 0, text |-> NoText, out |-> <<>>, bust |-> 0, lastBust |-> 0]

NoTime == [hour |-> 12, minute |-> 0, period |-> "AM", spaced |-> FALSE,
           padded |-> FALSE]

\* No call of a helper is under way.
BlankHelpers ==
    /\ timeIn = NoTime
    /\ timeStr = <<>>
    /\ timeRet = <<>>
    /\ oddsArgs = <<0, 0>>
    /\ oddsRet = <<>>

\* The Worker as loaded: no invocation yet, an empty leagueCollection.
BlankWorker ==
    /\ method = ""
    /\ env = NoEnv
    /\ leagueCollection = {}
    /\ fullUrl = NoUrl
    /\ fetched = FALSE
    /\ status = 0
    /\ rawText = NoText
    /\ result = Undefined
    /\ response = NoResponse
    /\ net = "none"
    /\ data = <<>>
    /\ runLeagues = {}
    /\ idem = NoIdem

Init == pc = "idle" /\ BlankWorker /\ BlankHelpers

pureVars == <<timeIn, timeStr, timeRet, oddsArgs, oddsRet>>

workerVars == <<method, env, leagueCollection, fullUrl, fetched, status, rawText,
                result, response, net, data, runLeagues, idem>>

\* The Worker is handed a request.
Begin(m, e) ==
    /\ pc = "idle"
    /\ method' = m
    /\ env' = e
    /\ UNCHANGED <<status, rawText, result, net, data, runLeagues>>

\* The CORS preflight: new Response(null, {headers}).
Options(e) ==
    /\ Begin("OPTIONS", e)
    /\ pc' = "done"
    /\ fetched' = FALSE
    /\ fullUrl' = NoUrl
    /\ response' = Response(200, "null", <<>>)
    /\ UNCHANGED <<leagueCollection, idem, pureVars>>

\* A required setting is missing: 500 with {error, message}.
ConfigError(m, e) ==
    /\ m # "OPTIONS"
    /\ ConfigMissing(e)
    /\ Begin(m, e)
    /\ pc' = "done"
    /\ fetched' = FALSE
    /\ fullUrl' = NoUrl
    /\ response' = Response(500, "error", <<>>)
    /\ UNCHANGED <<leagueCollection, idem, pureVars>>

\* The handler up to `await fetch(fullUrl)` in fetchAndProcessData.
StartFetch(m, e, timestamp) ==
    /\ m # "OPTIONS"
    /\ ~ConfigMissing(e)
    /\ Begin(m, e)
    /\ pc' = "awaitFetch"
    /\ fetched' = TRUE
    /\ fullUrl' = FullUrl(e, 1, timestamp)
    /\ response' = NoResponse
    /\ UNCHANGED <<leagueCollection, idem, pureVars>>

\* Everything from the relay's answer to the handler's Response: the rest of
\* fetchAndProcessData, fetchOddsData, the projection and the 200 response.
Complete(n, text) ==
    LET res == fetchAndProcessData(n, status, text)
        norm == fetchOddsData(res, leagueCollection)
    IN /\ net' = n
       /\ rawText' = IF n = "ok" /\ ResponseOk(status) THEN text ELSE NoText
       /\ result' = res
       /\ data' = IF norm.thrown THEN <<>> ELSE norm.finalArr
       /\ runLeagues' = norm.leagues
       /\ leagueCollection' = leagueCollection \cup norm.leagues
       /\ response' = Response(200, "array",
                               getFormattedMatchesAsJson(res, leagueCollection))
       /\ fullUrl' = NoUrl
       /\ pc' = "done"
       /\ UNCHANGED <<method, env, fetched, status, pureVars>>

\* fetch() rejects (network error).
FetchRejects ==
    /\ pc = "awaitFetch"
    /\ Complete("error", NoText)
    /\ UNCHANGED idem

\* fetch() resolves with a response of status st; the body is awaited, at
\* line 33 (errorText) when the status is no success, at line 39 (rawText)
\* when it is.
FetchResolves(st) ==
    /\ pc = "awaitFetch"
    /\ pc' = IF ResponseOk(st) THEN "awaitText" ELSE "awaitErrorText"
    /\ status' = st
    /\ UNCHANGED <<method, env, leagueCollection, fullUrl, fetched, rawText,
                   result, response, net, data, runLeagues, idem, pureVars>>

\* response.text() of a failed response resolves: the text is logged and an
\* Error is thrown, which the outer catch turns into [].
ErrorTextResolves ==
    /\ pc = "awaitErrorText"
    /\ Complete("ok", NoText)
    /\ UNCHANGED idem

\* response.text() rejects.
TextRejects ==
    /\ pc \in {"awaitText", "awaitErrorText"}
    /\ Complete("error", NoText)
    /\ UNCHANGED idem

\* response.text() resolves with the body.
TextResolves(text) ==
    /\ pc = "awaitText"
    /\ Complete("ok", text)
    /\ UNCHANGED idem

\* The runtime has sent the Response: the invocation is over, and nothing is
\* left of it but the module's leagueCollection.
Respond ==
    /\ pc = "done"
    /\ pc' = "idle"
    /\ method' = ""
    /\ env' = NoEnv
    /\ fetched' = FALSE
    /\ status' = 0
    /\ rawText' = NoText
    /\ result' = Undefined
    /\ response' = NoResponse
    /\ net' = "none"
    /\ data' = <<>>
    /\ runLeagues' = {}
    /\ UNCHANGED <<leagueCollection, fullUrl, idem, pureVars>>

Next ==
    \/ \E e \in Envs : Options(e)
    \/ \E m \in Methods, e \in Envs : ConfigError(m, e)
    \/ \E m \in Methods, e \in Envs, t \in Timestamps : StartFetch(m, e, t)
    \/ FetchRejects
    \/ \E st \in Statuses : FetchResolves(st)
    \/ ErrorTextResolves
    \/ TextRejects
    \/ pc = "awaitText" /\ \E text \in Bodies : TextResolves(text)
    \/ Respond

Spec == Init /\ [][Next]_vars


---------------------------------------------------------------------------
(* Repeated pipeline runs on one relay body, after any number of runs on   *)
(* other bodies.  The clock moves between the repeated runs: run k builds  *)
(* its URL with timestamp k.                                               *)

IdemStart ==
    /\ idem.runs < MaxTimestamp
    /\ \E e \in Envs : StartFetch("GET", e, idem.runs + 1)

IdemTextResolves ==
    /\ pc = "awaitText"
    /\ \E text \in (IF idem.runs = 0 THEN Bodies ELSE {idem.text}) :
          /\ Complete("ok", text)
          /\ idem' = [runs |-> idem.runs + 1,
                      text |-> text,
                      out |-> IF idem.runs = 0 THEN response'.body ELSE idem.out,
                      bust |-> IF idem.runs = 0 THEN fullUrl.encoded.bust
                               ELSE idem.bust,
                      lastBust |-> fullUrl.encoded.bust]

\* A run on any body before the repeated runs begin.
IdemEarlierRun ==
    /\ pc = "awaitText"
    /\ idem.runs = 0
    /\ \E text \in Bodies : TextResolves(text)

NextIdem ==
    \/ IdemStart
    \/ IdemEarlierRun
    \/ \E st \in Statuses : FetchResolves(st)
    \/ ErrorTextResolves
    \/ IdemTextResolves
    \/ Respond

SpecIdem == Init /\ [][NextIdem]_vars

---------------------------------------------------------------------------
(* Calls of subtract90Minutes on the valid 12-hour inputs.                 *)

Periods == {"AM", "PM"}

TimesOfDay ==
    [hour : 1..12, minute : 0..59, period : Periods, spaced : BOOLEAN,
     padded : BOOLEAN]

PeriodChars(p) == IF p = "AM" THEN <<"A", "M">> ELSE <<"P", "M">>

\* The string a time of day is written as: "10:30AM", "2:15 PM", "02:15 PM".
TimeString(t) ==
    (IF t.padded THEN PadStart2(NatChars(t.hour)) ELSE NatChars(t.hour))
        \o <<":">> \o PadStart2(NatChars(t.minute))
        \o (IF t.spaced THEN <<" ">> ELSE <<>>) \o PeriodChars(t.period)

InitTime ==
    /\ pc = "call"
    /\ BlankWorker
    /\ timeIn \in TimesOfDay
    /\ timeStr = TimeString(timeIn)
    /\ timeRet = <<>>
    /\ oddsArgs = <<0, 0>>
    /\ oddsRet = <<>>

CallSubtract90Minutes ==
    /\ pc = "call"
    /\ pc' = "return"
    /\ timeRet' = subtract90Minutes(timeStr)
    /\ UNCHANGED <<workerVars, timeIn, timeStr, oddsArgs, oddsRet>>

SpecTime == InitTime /\ [][CallSubtract90Minutes]_vars

---------------------------------------------------------------------------
(* Calls of formatOdds on small integers.                                  *)

InitOdds ==
    /\ pc = "call"
    /\ BlankWorker
    /\ timeIn = NoTime
    /\ timeStr = <<>>
    /\ timeRet = <<>>
    /\ oddsArgs \in (0..MaxWhole) \X ((-MaxCents)..MaxCents)
    /\ oddsRet = <<>>

CallFormatOdds ==
    /\ pc = "call"
    /\ pc' = "return"
    /\ oddsRet' = formatOdds(oddsArgs[1], oddsArgs[2])
    /\ UNCHANGED <<workerVars, timeIn, timeStr, timeRet, oddsArgs>>

SpecOdds == InitOdds /\ [][CallFormatOdds]_vars


---------------------------------------------------------------------------
(* Properties of the Raw Data Fetcher.                                     *)

\* An invocation that went through fetchAndProcessData has returned.
FetcherReturned == pc = "done" /\ fetched

SuccessStatus == status \in 200..299

\* The body is JSON once every single quote is a double quote: it is JSON up
\* to its quotes and no string value holds a quote character of its own.
ParsesAfterReplacement == rawText.syntax = "json" /\ rawText.inner = ""

\* The parsed value has no element at index 3 to hand on.
TooShortOrNoArray == rawText.value.t # "array" \/ rawText.value.len <= 3

\* C1: on a network error, a status outside the success range, a body that
\* is not JSON after the quote replacement, a parsed value that is no array
\* or an array of length <= 3, fetchAndProcessData returns [] to its caller.
FetcherDegradesToEmpty ==
    (FetcherReturned
        /\ (net = "error" \/ ~SuccessStatus \/ ~ParsesAfterReplacement
              \/ TooShortOrNoArray))
        => result = EmptyArray

\* C1 witness: a 200 response whose body parses to an array of length 3.
FetcherShortArrayCase ==
    /\ FetcherReturned
    /\ net = "ok"
    /\ status = 200
    /\ ParsesAfterReplacement
    /\ rawText.value = TopArray(3, Undefined)
    /\ result = EmptyArray

\* C2: whatever the relay answers, the value fetchAndProcessData returns is
\* an array.
FetcherReturnsSequence == FetcherReturned => result.t = "array"

\* C9, as stated: after a successful parse the fetcher returns [] when the
\* parsed value is no array or has 4 or fewer elements, and the element at
\* index 3 only when it has more than 4.
FetcherNeedsMoreThanFour ==
    (FetcherReturned /\ net = "ok" /\ SuccessStatus /\ ParsesAfterReplacement)
        => result = IF rawText.value.t = "array" /\ rawText.value.len > 4
                    THEN rawText.value.third
                    ELSE EmptyArray

\* C9, amended: after a successful parse the fetcher returns [] when the
\* parsed value is no array or has 3 or fewer elements, and the element at
\* index 3 when it has more than 3.
FetcherNeedsMoreThanThree ==
    (FetcherReturned /\ net = "ok" /\ SuccessStatus /\ ParsesAfterReplacement)
        => result = IF rawText.value.t = "array" /\ rawText.value.len > 3
                    THEN rawText.value.third
                    ELSE EmptyArray

\* C9 witness: an array of exactly 4 elements whose element at index 3, a
\* non-empty array, is what the fetcher returned.
FetcherFourElementCase ==
    /\ FetcherReturned
    /\ net = "ok"
    /\ ParsesAfterReplacement
    /\ rawText.value.t = "array"
    /\ rawText.value.len = 4
    /\ result = rawText.value.third
    /\ result.t = "array"
    /\ result.entries # <<>>

---------------------------------------------------------------------------
(* Properties of the Match Normalizer.                                     *)

\* Every element of the raw input is a pair with a leagueMeta.
AllPairs(v) ==
    /\ v.t = "array"
    /\ \A i \in 1..Len(v.entries) :
          v.entries[i].kind = "pair" /\ ~v.entries[i].metaIsNull

\* The matches of the raw input in (league, match) traversal order, each
\* with the league name of its pair.
RECURSIVE Traversal(_)
Traversal(es) ==
    IF es = <<>> THEN <<>>
    ELSE [j \in 1..Len(Head(es).matches) |->
              WithLeague(Head(es).matches[j], Head(es).name)]
             \o Traversal(Tail(es))

RECURSIVE FirstOccurrencesFrom(_, _)
FirstOccurrencesFrom(flat, i) ==
    IF i > Len(flat) THEN <<>>
    ELSE (IF \A j \in 1..(i - 1) : flat[j].f3 # flat[i].f3
          THEN <<flat[i]>> ELSE <<>>)
             \o FirstOccurrencesFrom(flat, i + 1)

\* C3: on a raw input of [leagueMeta, matches] pairs, the normalizer's output
\* holds no identifier twice and is the sequence of the first occurrences of
\* each identifier in traversal order, each with the league of its own pair.
NormalizerKeepsFirstOccurrences ==
    (FetcherReturned /\ AllPairs(result))
        => /\ data = FirstOccurrencesFrom(Traversal(result.entries), 1)
           /\ \A i, j \in 1..Len(data) : data[i].f3 = data[j].f3 => i = j

\* C3 witness: two leagues of different names share an identifier, and the
\* output holds it once, under the first league's name.
NormalizerDroppedDuplicate ==
    /\ FetcherReturned
    /\ AllPairs(result)
    /\ Len(result.entries) = 2
    /\ result.entries[1].name # result.entries[2].name
    /\ \E a \in 1..Len(result.entries[1].matches),
          b \in 1..Len(result.entries[2].matches) :
          /\ result.entries[1].matches[a].f3 = result.entries[2].matches[b].f3
          /\ \E i \in 1..Len(data) :
                /\ data[i].f3 = result.entries[1].matches[a].f3
                /\ data[i].league = result.entries[1].name
    /\ Len(data) < Len(Traversal(result.entries))

\* C5: the registry is scoped to one run: an invocation starts with an empty
\* leagueCollection and ends with exactly the league names it met.
RegistryScopedToInvocation ==
    /\ pc \in {"awaitFetch", "awaitText", "awaitErrorText"} => leagueCollection = {}
    /\ FetcherReturned => leagueCollection = runLeagues

---------------------------------------------------------------------------
(* Properties of the pipeline and of the handler.                          *)

\* fetchOddsData throws on the value the fetcher returned.
NormalizationThrows ==
    \/ result.t # "array"
    \/ \E i \in 1..Len(result.entries) :
          \/ result.entries[i].kind # "pair"
          \/ /\ result.entries[i].metaIsNull
             /\ result.entries[i].matchesIsArray
             /\ result.entries[i].matches # <<>>

\* The projection throws on a normalized match.
ProjectionThrows == \E i \in 1..Len(data) : ~data[i].timeIsString

\* C10: the pipeline's output is the empty sequence or one FormattedMatch per
\* normalized match, in the normalizer's order; when normalization or the
\* projection of an entry throws it is the empty sequence, never a part.
PipelineAllOrNothing ==
    FetcherReturned
        => /\ \/ response.body = <<>>
              \/ /\ Len(response.body) = Len(data)
                 /\ \A i \in 1..Len(data) : response.body[i] = FormatMatch(data[i])
           /\ (NormalizationThrows \/ ProjectionThrows) => response.body = <<>>

\* C10 witness: the projection of the second match throws after the first
\* match was projected, and the output is empty.
PipelineFailedMidway ==
    /\ FetcherReturned
    /\ Len(data) >= 2
    /\ data[1].timeIsString
    /\ ~data[2].timeIsString
    /\ response.body = <<>>

\* !x of a setting: it is absent or the empty string.
SettingAbsent(x) == ~x.defined \/ x.v = ""

\* The data layer failed: network error, status outside the success range,
\* parse error, or a payload that is not an array with an array at index 3.
DataLayerFailure ==
    \/ net = "error"
    \/ ~SuccessStatus
    \/ ~ParsesAfterReplacement
    \/ TooShortOrNoArray
    \/ rawText.value.third.t # "array"

\* C4: a non-OPTIONS request gets 500 with an error body and no outbound
\* fetch when a required setting is absent; with both present every
\* data-layer failure gets 200 with an empty array; a non-200 response
\* occurs only for missing configuration.
HandlerStatusPolicy ==
    (pc = "done" /\ method # "OPTIONS")
        => LET missing == SettingAbsent(env.ODDS_PARENT_URL)
                              \/ SettingAbsent(env.PROXY_URL)
           IN /\ missing => response = Response(500, "error", <<>>) /\ ~fetched
              /\ (~missing /\ DataLayerFailure)
                    => fetched /\ response = Response(200, "array", <<>>)
              /\ response.status # 200 => missing

\* C4 witness: both settings present, a 200 relay answer whose element at
\* index 3 is no array, and the client gets 200 with an empty array.
HandlerAbsorbedShapeError ==
    /\ pc = "done"
    /\ method = "GET"
    /\ fetched
    /\ net = "ok"
    /\ status = 200
    /\ ParsesAfterReplacement
    /\ rawText.value.t = "array"
    /\ rawText.value.len > 3
    /\ rawText.value.third.t = "number"
    /\ response = Response(200, "array", <<>>)

\* C6: a pipeline run on the body of an earlier run returns the output of
\* that earlier run, whatever the earlier runs left behind and whatever the
\* timestamps of the two runs.
PipelineIdempotent ==
    (pc = "done" /\ net = "ok" /\ SuccessStatus /\ idem.runs >= 2
        /\ rawText = idem.text)
        => response.body = idem.out

\* C6 witness: a second run on the same body, with another timestamp and a
\* leagueCollection filled by the first, returned a non-empty output after
\* dropping a duplicate.
PipelineRanTwice ==
    /\ pc = "done"
    /\ net = "ok"
    /\ idem.runs >= 2
    /\ rawText = idem.text
    /\ idem.lastBust # idem.bust
    /\ leagueCollection # {}
    /\ response.body # <<>>
    /\ result.t = "array"
    /\ Len(data) < Len(Traversal(result.entries))

---------------------------------------------------------------------------
(* Properties of the helpers.                                              *)

\* Minutes since midnight of a time of day: 12 AM is 0, 12 PM is 720.
MinutesSinceMidnight(t) ==
    ((t.hour % 12) + (IF t.period = "PM" THEN 12 ELSE 0)) * 60 + t.minute

\* The 12-hour rendering H:MMAM / H:MMPM of a number of minutes since
\* midnight.
ClockString(total) ==
    LET h24 == total \div 60
        h12 == IF h24 % 12 = 0 THEN 12 ELSE h24 % 12
        mm == total % 60
    IN ToString(h12) \o ":" \o (IF mm < 10 THEN "0" ELSE "") \o ToString(mm)
           \o (IF h24 >= 12 THEN "PM" ELSE "AM")

\* C7: for every valid 12-hour input, with or without a space before the
\* suffix, subtract90Minutes returns the 12-hour rendering of
\* (t - 90) mod 1440, t being the input's minutes since midnight.
TimeAdjustedBy90 ==
    pc = "return"
        => Str(timeRet) = ClockString((MinutesSinceMidnight(timeIn) + 1440 - 90) % 1440)

====
